---------------------------- MODULE Spec2Model ----------------------------
(***************************************************************************)
(* FinTrack Pro (src/app.py): the compound-growth simulator                *)
(* simulate_growth and the pages of the Streamlit script that read and     *)
(* extend the transaction ledger kept in a Google Sheet.                   *)
(*                                                                         *)
(* SimSpec runs simulate_growth one loop iteration per step.  Spec runs    *)
(* the script in two browser sessions at once.  A run of the script is cut *)
(* into steps at its network waits (pd.read_csv, requests.post) and at the *)
(* st.success call where Streamlit may end it; the steps of the two        *)
(* sessions interleave, and both use the one st.cache_data entry.          *)
(*                                                                         *)
(* Numbers.  Amounts are integers (the sheet's Amount column).  A Python   *)
(* float is an IEEE 754 binary64 value [neg, man, exp], and /, * and + on  *)
(* floats round to nearest, ties to even, as the hardware does.            *)
(***************************************************************************)
EXTENDS Integers, Sequences, FiniteSets, Bags

VARIABLES
    monthly_topup,  \* simulate_growth: argument
    daily_rate,     \* simulate_growth: argument (percent per step), a float
    months,         \* simulate_growth: argument
    day,            \* simulate_growth: loop variable
    balance,        \* simulate_growth: local, a float
    history,        \* simulate_growth: local, the returned list
    pc,             \* simulate_growth: "loop" or "return"
    ledger,         \* the rows of the Google Sheet, in insertion order
    cache,          \* st.cache_data entry of load_google_sheet_csv
    run,            \* per session: where its run of the script stands
    view            \* what the run that ended in the last step showed

sim_vars == <<monthly_topup, daily_rate, months, day, balance, history, pc>>
app_vars == <<ledger, cache, run, view>>
vars == <<monthly_topup, daily_rate, months, day, balance, history, pc,
          ledger, cache, run, view>>

----------------------------------------------------------------------------
(* Natural numbers of any size, for the 53-bit significands: little-endian *)
(* sequences of limbs below Base without leading zero limbs; <<>> is 0.    *)

LimbBits == 14
Base == 2^LimbBits

RECURSIVE Strip(_)
Strip(a) ==
    IF a # <<>> /\ a[Len(a)] = 0 THEN Strip(SubSeq(a, 1, Len(a) - 1)) ELSE a

RECURSIVE BFromInt(_)
BFromInt(n) == IF n = 0 THEN <<>> ELSE <<n % Base>> \o BFromInt(n \div Base)

RECURSIVE BToInt(_)
BToInt(a) == IF a = <<>> THEN 0 ELSE a[1] + Base * BToInt(Tail(a))

Limb(a, i) == IF i <= Len(a) THEN a[i] ELSE 0

ZeroLimbs(n) == [i \in 1..n |-> 0]

\* The limbs i, i + 1, ... of a + b + c
RECURSIVE AddFrom(_, _, _, _)
AddFrom(a, b, i, c) ==
    IF i > Len(a) /\ i > Len(b)
    THEN IF c = 0 THEN <<>> ELSE <<c>>
    ELSE <<(Limb(a, i) + Limb(b, i) + c) % Base>>
           \o AddFrom(a, b, i + 1, (Limb(a, i) + Limb(b, i) + c) \div Base)

BAdd(a, b) == AddFrom(a, b, 1, 0)

RECURSIVE SubFrom(_, _, _, _)
SubFrom(a, b, i, c) ==
    IF i > Len(a) THEN <<>>
    ELSE <<(a[i] - Limb(b, i) - c) % Base>>
           \o SubFrom(a, b, i + 1, IF a[i] - Limb(b, i) - c < 0 THEN 1 ELSE 0)

\* a - b for a >= b
BSub(a, b) == Strip(SubFrom(a, b, 1, 0))

BLess(a, b) ==
    IF Len(a) # Len(b) THEN Len(a) < Len(b)
    ELSE \E i \in 1..Len(a) :
            a[i] < b[i] /\ \A j \in (i + 1)..Len(a) : a[j] = b[j]

RECURSIVE MulFrom(_, _, _, _)
MulFrom(a, k, i, c) ==
    IF i > Len(a)
    THEN IF c = 0 THEN <<>> ELSE <<c>>
    ELSE <<(a[i] * k + c) % Base>>
           \o MulFrom(a, k, i + 1, (a[i] * k + c) \div Base)

\* a * k for 0 <= k <= Base
BMulSmall(a, k) == IF k = 0 THEN <<>> ELSE MulFrom(a, k, 1, 0)

RECURSIVE MulAcc(_, _, _)
MulAcc(a, b, j) ==
    IF j > Len(b) THEN <<>>
    ELSE BAdd(ZeroLimbs(j - 1) \o BMulSmall(a, b[j]), MulAcc(a, b, j + 1))

BMul(a, b) == IF a = <<>> \/ b = <<>> THEN <<>> ELSE Strip(MulAcc(a, b, 1))

\* a * 2^k
BShl(a, k) ==
    IF a = <<>> THEN <<>>
    ELSE ZeroLimbs(k \div LimbBits) \o BMulSmall(a, 2^(k % LimbBits))

RECURSIVE DivDown(_, _, _, _)
DivDown(a, d, i, r) ==
    IF i = 0 THEN <<>>
    ELSE DivDown(a, d, i - 1, (r * Base + a[i]) % d)
           \o <<(r * Base + a[i]) \div d>>

\* floor(a / 2^k), a given without its k \div LimbBits lowest limbs
ShrLimbs(hi, k) == Strip(DivDown(hi, 2^(k % LimbBits), Len(hi), 0))

\* floor(a / 2^k)
BShr(a, k) ==
    ShrLimbs(IF k \div LimbBits >= Len(a) THEN <<>>
             ELSE SubSeq(a, k \div LimbBits + 1, Len(a)), k)

RECURSIVE BitLenSmall(_)
BitLenSmall(n) == IF n = 0 THEN 0 ELSE 1 + BitLenSmall(n \div 2)

BitLen(a) ==
    IF a = <<>> THEN 0
    ELSE LimbBits * (Len(a) - 1) + BitLenSmall(a[Len(a)])

\* The number of zero bits below the lowest one bit of a # 0
RECURSIVE TrailingZeros(_)
TrailingZeros(a) ==
    IF a[1] = 0 THEN LimbBits + TrailingZeros(Tail(a))
    ELSE CHOOSE k \in 0..(LimbBits - 1) :
            a[1] % 2^k = 0 /\ (a[1] \div 2^k) % 2 = 1

\* Long division of n by d # 0: the limbs of n from the top, the bits of each
\* limb from the top; q is the quotient of the limb so far, r the remainder
\* so far and r2 the remainder with the next bit of the limb shifted in.
RECURSIVE DivLimb(_, _, _, _, _)
DivBit(limb, d, j, q, r2) ==
    IF BLess(r2, d)
    THEN DivLimb(limb, d, j - 1, 2 * q, r2)
    ELSE DivLimb(limb, d, j - 1, 2 * q + 1, BSub(r2, d))
DivLimb(limb, d, j, q, r) ==
    IF j = 0 THEN [q |-> q, r |-> r]
    ELSE DivBit(limb, d, j, q, AddFrom(r, r, 1, (limb \div 2^(j - 1)) % 2))

PutLimb(rest, q) == [q |-> rest.q \o <<q>>, r |-> rest.r]

RECURSIVE DivLimbs(_, _, _, _)
DivRest(n, d, i, s) == PutLimb(DivLimbs(n, d, i - 1, s.r), s.q)
DivLimbs(n, d, i, r) ==
    IF i = 0 THEN [q |-> <<>>, r |-> r]
    ELSE DivRest(n, d, i, DivLimb(n[i], d, LimbBits, 0, r))

\* The same with the divisor and the remainder as plain integers, for d < 2^28.
RECURSIVE DivLimbInt(_, _, _, _, _)
DivBitInt(limb, d, j, q, r2) ==
    IF r2 < d
    THEN DivLimbInt(limb, d, j - 1, 2 * q, r2)
    ELSE DivLimbInt(limb, d, j - 1, 2 * q + 1, r2 - d)
DivLimbInt(limb, d, j, q, r) ==
    IF j = 0 THEN [q |-> q, r |-> r]
    ELSE DivBitInt(limb, d, j, q, 2 * r + ((limb \div 2^(j - 1)) % 2))

RECURSIVE DivLimbsInt(_, _, _, _)
DivRestInt(n, d, i, s) == PutLimb(DivLimbsInt(n, d, i - 1, s.r), s.q)
DivLimbsInt(n, d, i, r) ==
    IF i = 0 THEN [q |-> <<>>, r |-> BFromInt(r)]
    ELSE DivRestInt(n, d, i, DivLimbInt(n[i], d, LimbBits, 0, r))

StripQuotient(qr) == [q |-> Strip(qr.q), r |-> qr.r]

\* Quotient and remainder of n / d
BDivMod(n, d) ==
    StripQuotient(IF Len(d) <= 2 THEN DivLimbsInt(n, BToInt(d), Len(n), 0)
                  ELSE DivLimbs(n, d, Len(n), <<>>))

----------------------------------------------------------------------------
(* Python floats: IEEE 754 binary64.  A float is (-1)^neg * man * 2^exp   *)
(* with man odd, or man = 0 and exp = 0; 1010000.0 is 63125 * 2^4 and its *)
(* man is <<13973, 3>>.  The values of the model are far from the         *)
(* exponent limits: infinities, NaN and subnormal numbers do not occur,   *)
(* except for the division by zero of the forecast, which DaysLeft        *)
(* handles itself.                                                        *)

\* The bits of a binary64 significand
MantBits == 53

\* m * 2^e for m # 0 with tz trailing zero bits
CanonOdd(neg, m, e, tz) == [neg |-> neg, man |-> BShr(m, tz), exp |-> e + tz]

\* m * 2^e, which fits a float
Canon(neg, m, e) ==
    IF m = <<>> THEN [neg |-> neg, man |-> <<>>, exp |-> 0]
    ELSE CanonOdd(neg, m, e, TrailingZeros(m))

\* Round to nearest, ties to even: q is the value cut to MantBits bits, rem
\* what was cut off, half the weight of half a unit of q.  sticky: the value
\* is a little more than q and rem say (a division left a remainder).
RoundUp(q, rem, half, sticky) ==
    \/ BLess(half, rem)
    \/ rem = half /\ (sticky \/ q[1] % 2 = 1)

RoundCut(neg, e, sticky, q, rem, half) ==
    Canon(neg, IF RoundUp(q, rem, half, sticky) THEN BAdd(q, <<1>>) ELSE q, e)

RoundShift(neg, m, e, sticky, sh, q) ==
    RoundCut(neg, e + sh, sticky, q, BSub(m, BShl(q, sh)), BShl(<<1>>, sh - 1))

RoundBits(neg, m, e, sticky, n) ==
    IF n <= MantBits THEN Canon(neg, m, e)
    ELSE RoundShift(neg, m, e, sticky, n - MantBits, BShr(m, n - MantBits))

\* The float nearest to m * 2^e
Round(neg, m, e, sticky) == RoundBits(neg, m, e, sticky, BitLen(m))

\* float(n) for an integer n
FFromInt(n) == Canon(n < 0, BFromInt(IF n < 0 THEN -n ELSE n), 0)

FNeg(x) == [x EXCEPT !.neg = ~x.neg]

FIsZero(x) == x.man = <<>>

\* x * y
FMul(x, y) == Round(x.neg # y.neg, BMul(x.man, y.man), x.exp + y.exp, FALSE)

\* x + y, the significands mx and my brought to the exponent e
AddAligned(x, y, e, mx, my) ==
    IF x.neg = y.neg THEN Round(x.neg, BAdd(mx, my), e, FALSE)
    ELSE IF mx = my THEN Canon(FALSE, <<>>, 0)
    ELSE IF BLess(mx, my) THEN Round(y.neg, BSub(my, mx), e, FALSE)
    ELSE Round(x.neg, BSub(mx, my), e, FALSE)

AddAt(x, y, e) ==
    AddAligned(x, y, e, BShl(x.man, x.exp - e), BShl(y.man, y.exp - e))

\* x + y
FAdd(x, y) ==
    IF FIsZero(x) /\ FIsZero(y) THEN [x EXCEPT !.neg = x.neg /\ y.neg]
    ELSE AddAt(x, y, IF x.exp < y.exp THEN x.exp ELSE y.exp)

DivRound(neg, qr, e) == Round(neg, qr.q, e, qr.r # <<>>)

\* x / y with the significand of x shifted up by k bits
DivShifted(x, y, k) ==
    DivRound(x.neg # y.neg, BDivMod(BShl(x.man, k), y.man), x.exp - k - y.exp)

\* x / y for y # 0: the quotient of the significands to at least
\* MantBits + 2 bits, then rounded.
FDiv(x, y) ==
    IF FIsZero(x) THEN Canon(x.neg # y.neg, <<>>, 0)
    ELSE DivShifted(x, y,
             IF BitLen(y.man) + MantBits + 2 > BitLen(x.man)
             THEN BitLen(y.man) + MantBits + 2 - BitLen(x.man)
             ELSE 0)

NotPositive(x) == FIsZero(x) \/ x.neg

\* x <= y
FLe(x, y) == NotPositive(FAdd(x, FNeg(y)))

Signed(neg, n) == IF neg THEN -n ELSE n

\* int(x): truncation toward zero, for |x| < 2^31
FTrunc(x) ==
    Signed(x.neg, BToInt(IF x.exp >= 0 THEN BShl(x.man, x.exp)
                         ELSE BShr(x.man, -x.exp)))

----------------------------------------------------------------------------
(* Bounds of the model *)

MaxCycles == 2

\* The contributions simulate_growth is called with (1000000 is the default
\* of the Earnings Simulator page).
Contributions == {-3, 0, 1, 1000000}

\* The rates, in halves of a percent: 0.5, 1.0 and 1.5 are the rates of the
\* Earnings Simulator page (src/app.py:132-137); 50.0, 100.0, -50.0, -100.0
\* and -200.0 give the factors 1.5, 2.0, 0.5, 0.0 and -1.0.
HalfPercents == {-400, -200, -100, 0, 1, 2, 3, 100, 200}

Rates == {FDiv(FFromInt(h), FFromInt(2)) : h \in HalfPercents}

SimInputs == Contributions \X Rates \X (0..MaxCycles)

----------------------------------------------------------------------------
(* simulate_growth, src/app.py:40-48 *)

STEPS_PER_CYCLE == 20

\* balance = 0; the first statement that uses it makes it a float.
InitialBalance == FFromInt(0)

\* days = months * 20.  DaysOffByOne and DaysInclusive are the faulty variants
\* range(1, days) and range(0, days + 1), used to test C10 and C1.
DaysOffByOne(m) == m * STEPS_PER_CYCLE - 1
DaysInclusive(m) == m * STEPS_PER_CYCLE + 1
Days(m) == m * STEPS_PER_CYCLE

\* day % 20 == 1.  IsCycleStartLastDay is the faulty variant day % 20 == 0,
\* used to test C2.
IsCycleStartLastDay(d) == d % STEPS_PER_CYCLE = 0
IsCycleStart(d) == d % STEPS_PER_CYCLE = 1

\* 1 + (daily_rate / 100)
Factor(rate) == FAdd(FFromInt(1), FDiv(rate, FFromInt(100)))

\* One iteration of the loop body: the new balance.  StepBalanceDebit is the
\* faulty variant balance -= monthly_topup, used to test C3.
StepBalanceDebit(b, d, topup, rate) ==
    FMul(IF IsCycleStart(d) THEN FAdd(b, FFromInt(-topup)) ELSE b,
         Factor(rate))
StepBalance(b, d, topup, rate) ==
    FMul(IF IsCycleStart(d) THEN FAdd(b, FFromInt(topup)) ELSE b,
         Factor(rate))

SimInit ==
    /\ \E in \in SimInputs :
         /\ monthly_topup = in[1]
         /\ daily_rate = in[2]
         /\ months = in[3]
    /\ day = 1
    /\ balance = InitialBalance
    /\ history = <<>>
    /\ pc = "loop"

\* for day in range(1, days + 1): ... history.append(balance)
SimStep ==
    /\ pc = "loop"
    /\ day <= Days(months)
    /\ balance' = StepBalance(balance, day, monthly_topup, daily_rate)
    /\ history' = Append(history, balance')
    /\ day' = day + 1
    /\ UNCHANGED <<monthly_topup, daily_rate, months, pc, app_vars>>

\* return history
SimReturn ==
    /\ pc = "loop"
    /\ day > Days(months)
    /\ pc' = "return"
    /\ UNCHANGED <<monthly_topup, daily_rate, months, day, balance, history,
                   app_vars>>

----------------------------------------------------------------------------
(* The ledger: the sheet behind GOOGLE_SCRIPT_URL and CSV_SHEET_URL *)

MaxLedger == 2

TARGET_GOAL == 100000000

\* What the user enters in the transaction form: (Type, Amount).
FormInputs ==
    { <<"topup", 100000000>>, <<"profit", 50000>>, <<"profit", 500>>,
      <<"withdraw", -20000>> }

\* The Date cells of the sheet: a date, or a cell that does not parse.
DateCells == {"", "2026-10-29", "2026-10-30"}

\* pd.Timestamp.now(), as a day number (days since 1970-01-01).
NowDays == {20756}

\* The target of the number_input on the Goal Tracker page.
Goals == {0, TARGET_GOAL}

\* The slider of the Earnings Simulator page (1..60, default 12).
Durations == {1, 12}

\* requests.post: the status code of the response, or an exception.
Outcomes == {"200", "500", "raise"}

NaT == -1

\* pd.to_datetime(df["Date"], errors="coerce"), as a day number.
to_datetime(cell) ==
    CASE cell = "2026-10-29" -> 20755
      [] cell = "2026-10-30" -> 20756
      [] OTHER -> NaT

\* The script behind GOOGLE_SCRIPT_URL: a request it answers with 200 has
\* appended one row, stamped with the sheet's date cell.
Post(sheet, payload, cell) ==
    Append(sheet, [type |-> payload.type, amount |-> payload.amount,
                   note |-> payload.note, date |-> cell])

\* The date cell of the row a request appends; a request that is not
\* answered with 200 appends no row.
Stamps(outcome) == IF outcome = "200" THEN DateCells ELSE {""}

\* requests.post(GOOGLE_SCRIPT_URL, json=payload), once: the sheet afterwards.
\* SubmitTwice is the faulty variant that posts the payload twice, used to
\* test C8.
SubmitTwice(sheet, payload, outcome, cell) ==
    IF outcome = "200"
    THEN Post(Post(sheet, payload, cell), payload, cell)
    ELSE sheet
Submit(sheet, payload, outcome, cell) ==
    IF outcome = "200" THEN Post(sheet, payload, cell) ELSE sheet

\* st.success / st.error of a submission.
Status(outcome) ==
    CASE outcome = "200" -> "saved"
      [] outcome = "500" -> "failed"
      [] OTHER -> "exception"

\* df[df["Type"] == t]["Amount"].sum()
RECURSIVE SumType(_, _)
SumType(df, t) ==
    IF df = <<>> THEN 0
    ELSE SumType(SubSeq(df, 1, Len(df) - 1), t)
           + (IF df[Len(df)].type = t THEN df[Len(df)].amount ELSE 0)

\* df[df["Type"] != t]["Amount"].sum()
RECURSIVE SumNotType(_, _)
SumNotType(df, t) ==
    IF df = <<>> THEN 0
    ELSE SumNotType(SubSeq(df, 1, Len(df) - 1), t)
           + (IF df[Len(df)].type # t THEN df[Len(df)].amount ELSE 0)

\* df["Date"].nunique(): the distinct parsed dates of all rows, NaT not counted.
nunique(df) ==
    Cardinality({to_datetime(df[i].date) : i \in DOMAIN df} \ {NaT})

----------------------------------------------------------------------------
(* What the pages compute from the frame df *)

\* roi = (profit / top_up * 100) if top_up else 0.  RoiUnguarded is the faulty
\* variant without the zero case (it divides by 1), used to test C7.
RoiUnguarded(profit, top_up) ==
    IF top_up # 0
    THEN FMul(FDiv(FFromInt(profit), FFromInt(top_up)), FFromInt(100))
    ELSE FMul(FDiv(FFromInt(profit), FFromInt(1)), FFromInt(100))
Roi(profit, top_up) ==
    IF top_up # 0
    THEN FMul(FDiv(FFromInt(profit), FFromInt(top_up)), FFromInt(100))
    ELSE FFromInt(0)

\* The largest pd.Timedelta and the last day of pd.Timestamp, in days.
TimedeltaMaxDays == 106751
TimestampMaxDay == 106751

NoForecast == [shown |-> FALSE, days_left |-> 0, goal_date |-> NaT]

\* avg_daily = profit / df["Date"].nunique(); int(remaining / avg_daily),
\* for profit > 0.  With no date, profit / 0 is inf for the numpy sum, and
\* int(remaining / inf) is 0.
DaysLeft(n, remaining, profit) ==
    IF n = 0 THEN 0
    ELSE FTrunc(FDiv(FFromInt(remaining),
                     FDiv(FFromInt(profit), FFromInt(n))))

\* pd.Timestamp.now() + pd.Timedelta(days=days_left): pd.Timedelta and the
\* sum raise outside their ranges.
ForecastError(days_left, goal_date) ==
    IF days_left > TimedeltaMaxDays \/ -days_left > TimedeltaMaxDays
    THEN "OutOfBoundsTimedelta"
    ELSE IF goal_date > TimestampMaxDay \/ -goal_date > TimestampMaxDay
         THEN "OutOfBoundsDatetime"
         ELSE ""

\* st.info(...), unless the date arithmetic has raised
ForecastInfo(error, days_left, goal_date) ==
    [error |-> error,
     forecast |-> [shown |-> error = "",
                   days_left |-> days_left,
                   goal_date |-> IF error = "" THEN goal_date ELSE NaT]]

ForecastDate(days_left, now) ==
    ForecastInfo(ForecastError(days_left, now + days_left),
                 days_left, now + days_left)

\* if profit > 0: avg_daily, remaining, days_left, goal_date, st.info.
Forecast(df, profit, bal, now) ==
    IF profit > 0
    THEN ForecastDate(DaysLeft(nunique(df), 100000000 - bal, profit), now)
    ELSE [error |-> "", forecast |-> NoForecast]

\* Dashboard, src/app.py:59-125: the metrics of the cards and the forecast.
\* The cards, the trend chart and their formatting are display only.
DashboardCards(df, top_up, profit, f) ==
    [page |-> "Dashboard",
     error |-> f.error,
     df |-> df,
     top_up |-> top_up,
     profit |-> profit,
     balance |-> top_up + profit,
     roi |-> Roi(profit, top_up),
     forecast |-> f.forecast]

DashboardSums(df, top_up, profit, now) ==
    DashboardCards(df, top_up, profit,
                   Forecast(df, profit, top_up + profit, now))

DashboardView(df, now) ==
    DashboardSums(df, SumType(df, "topup"), SumType(df, "profit"), now)

\* Transactions, src/app.py:170-173: the table of the frame.  The page
\* formats its own copy of the frame (st.cache_data hands out copies).
TransactionsView(df, status) ==
    [page |-> "Transactions", error |-> "", status |-> status, df |-> df]

\* progress = (balance / goal * 100) if goal else 0
Progress(bal, goal) ==
    IF goal # 0
    THEN FMul(FDiv(FFromInt(bal), FFromInt(goal)), FFromInt(100))
    ELSE FFromInt(0)

GoalTrackerBalance(df) ==
    SumType(df, "topup") + SumType(df, "profit") + SumType(df, "withdraw")

\* st.progress(value) accepts the values from 0.0 to 1.0 only.
ProgressBar(value) ==
    IF FLe(FFromInt(0), value) /\ FLe(value, FFromInt(1)) THEN ""
    ELSE "StreamlitAPIException"

\* Goal Tracker, src/app.py:180-186: st.metric and st.progress(progress / 100)
GoalTrackerMetric(df, goal, bal, progress) ==
    [page |-> "Goal Tracker",
     error |-> ProgressBar(FDiv(progress, FFromInt(100))),
     df |-> df,
     goal |-> goal,
     balance |-> bal,
     progress |-> progress]

GoalTrackerSums(df, goal, bal) ==
    GoalTrackerMetric(df, goal, bal, Progress(bal, goal))

GoalTrackerView(df, goal) == GoalTrackerSums(df, goal, GoalTrackerBalance(df))

\* The float 0.015
GainRate == [neg |-> FALSE, man |-> <<9175, 13762, 12451, 245>>, exp |-> -56]

\* gain = int(current_balance * 0.015)
Gain(current_balance) == FTrunc(FMul(FFromInt(current_balance), GainRate))

\* Settings, src/app.py:201-206: the message of the button's run.
SettingsView(status, gain) ==
    [page |-> "Settings", error |-> "", status |-> status, gain |-> gain]

----------------------------------------------------------------------------
(* Runs of the script.  Each browser session runs the script in a thread   *)
(* of its own; st.cache_data keeps one entry for all of them.  run is the  *)
(* bag of the runs under way, one per busy session (the sessions are alike *)
(* and carry no state between runs).  A run is at                          *)
(*   "fetch"   in pd.read_csv, on a cache miss; df is the sheet it read    *)
(*   "loaded"  Settings button: frame loaded and gain computed, in         *)
(*             requests.post, the request not yet at the sheet             *)
(*   "posted"  requests.post answered with 200, st.success not yet called  *)
(*   "load"    Transactions form: st.success done and the cache cleared,   *)
(*             before the reload                                           *)

Sessions == {"s1", "s2"}

RunState(p, page, status, df, gain) ==
    [pc |-> p, page |-> page, status |-> status, df |-> df, gain |-> gain]

NoView == [page |-> "", error |-> ""]

EmptyCache == [valid |-> FALSE, df |-> <<>>]

\* The runs at p
At(p) == {r \in BagToSet(run) : r.pc = p}

\* A session without a run
SessionFree == BagCardinality(run) < Cardinality(Sessions)

\* The runs without r; the runs as they are when no run is under way yet
Others(r) == run (-) SetToBag({r})

\* The run ends and has shown out; rest are the other runs.
Finish(rest, out) ==
    /\ run' = rest
    /\ view' = out

\* The run goes on at r.
Goto(rest, r) ==
    /\ run' = rest (+) SetToBag({r})
    /\ view' = NoView

\* The run after load_google_sheet_csv() has returned df.
Continue(rest, page, status, df) ==
    CASE page = "Dashboard" ->
            \E now \in NowDays : Finish(rest, DashboardView(df, now))
      [] page = "Transactions" ->
            Finish(rest, TransactionsView(df, status))
      [] page = "Goal Tracker" ->
            \E goal \in Goals : Finish(rest, GoalTrackerView(df, goal))
      [] OTHER ->
            Goto(rest, RunState("loaded", page, "", <<>>,
                                Gain(SumNotType(df, "withdraw"))))

\* load_google_sheet_csv() under st.cache_data: a hit returns the cached
\* frame and the run goes on; a miss starts pd.read_csv.  st.cache_data
\* computes a missing value under a lock: one pd.read_csv at a time, the
\* other runs wait for its result.
load_google_sheet_csv(rest, page, status) ==
    IF cache.valid
    THEN Continue(rest, page, status, cache.df)
    ELSE /\ At("fetch") = {}
         /\ Goto(rest, RunState("fetch", page, status, ledger, 0))

\* pd.read_csv returns: st.cache_data stores the frame, and the run goes on.
Store ==
    \E r \in At("fetch") :
        /\ cache' = [valid |-> TRUE, df |-> r.df]
        /\ Continue(Others(r), r.page, r.status, r.df)
        /\ UNCHANGED <<ledger, sim_vars>>

\* The ttl=60 of st.cache_data runs out.
CacheExpire ==
    /\ cache.valid
    /\ cache' = EmptyCache
    /\ view' = NoView
    /\ UNCHANGED <<ledger, run, sim_vars>>

\* A rerun is asked for while the run waits in requests.post: Streamlit ends
\* the run at its next st call, st.success, before the cache is cleared.
Stop ==
    \E r \in At("posted") :
        /\ run' = Others(r)
        /\ view' = NoView
        /\ UNCHANGED <<ledger, cache, sim_vars>>

----------------------------------------------------------------------------
(* Dashboard, src/app.py:56-125 *)

Dashboard ==
    /\ SessionFree
    /\ load_google_sheet_csv(run, "Dashboard", "")
    /\ UNCHANGED <<ledger, cache, sim_vars>>

----------------------------------------------------------------------------
(* Earnings Simulator, src/app.py:128-146 *)

\* The page charts simulate_growth(topup, daily_rate, duration): one point
\* per step.  The trajectory itself is the subject of SimSpec.
EarningsSimulator ==
    \E duration \in Durations :
        /\ SessionFree
        /\ view' = [page |-> "Earnings Simulator", error |-> "",
                    points |-> Days(duration)]
        /\ UNCHANGED <<ledger, cache, run, sim_vars>>

----------------------------------------------------------------------------
(* Transactions, src/app.py:149-173 *)

\* A run of the page without a submission.
Transactions ==
    /\ SessionFree
    /\ load_google_sheet_csv(run, "Transactions", "")
    /\ UNCHANGED <<ledger, cache, sim_vars>>

\* A run with the form submitted, up to the response of requests.post.
\* Answered with 200, the sheet has appended the row.  A request that fails
\* leaves the sheet as it was: st.error, and the run reloads the frame.
AddTransaction ==
    \E in \in FormInputs, outcome \in Outcomes :
      \E cell \in Stamps(outcome) :
        LET payload == [type |-> in[1], amount |-> in[2], note |-> ""]
            sheet == Submit(ledger, payload, outcome, cell)
        IN  /\ SessionFree
            /\ Len(sheet) <= MaxLedger
            /\ ledger' = sheet
            /\ IF outcome = "200"
               THEN Goto(run, RunState("posted", "Transactions", "", <<>>, 0))
               ELSE load_google_sheet_csv(run, "Transactions",
                                          Status(outcome))
            /\ UNCHANGED <<cache, sim_vars>>

\* if res.status_code == 200: st.success(...); load_google_sheet_csv.clear()
\* The run of the Settings button ends here, the form's run reloads.
Saved ==
    \E r \in At("posted") :
        /\ cache' = EmptyCache
        /\ IF r.page = "Transactions"
           THEN Goto(Others(r),
                     RunState("load", "Transactions", "saved", <<>>, 0))
           ELSE Finish(Others(r), SettingsView("saved", r.gain))
        /\ UNCHANGED <<ledger, sim_vars>>

\* df = load_google_sheet_csv() after the form, src/app.py:169
Reload ==
    \E r \in At("load") :
        /\ load_google_sheet_csv(Others(r), "Transactions", r.status)
        /\ UNCHANGED <<ledger, cache, sim_vars>>

----------------------------------------------------------------------------
(* Goal Tracker, src/app.py:176-186 *)

GoalTracker ==
    /\ SessionFree
    /\ load_google_sheet_csv(run, "Goal Tracker", "")
    /\ UNCHANGED <<ledger, cache, sim_vars>>

----------------------------------------------------------------------------
(* Settings, src/app.py:189-206 *)

\* A run of the page with the button not pressed.
Settings ==
    /\ SessionFree
    /\ view' = SettingsView("", 0)
    /\ UNCHANGED <<ledger, cache, run, sim_vars>>

\* The button "Simulate Auto-Daily Profit (+1.5%)": the load of the frame;
\* the gain is computed from it.
SimulateAutoDailyProfit ==
    /\ SessionFree
    /\ load_google_sheet_csv(run, "Settings", "")
    /\ UNCHANGED <<ledger, cache, sim_vars>>

\* requests.post of the gain, up to its response; st.error ends the run.
PostDailyGain ==
    \E r \in At("loaded"), outcome \in Outcomes :
      \E cell \in Stamps(outcome) :
        LET payload == [type |-> "profit", amount |-> r.gain,
                        note |-> "Simulated daily gain"]
            sheet == Submit(ledger, payload, outcome, cell)
        IN  /\ Len(sheet) <= MaxLedger
            /\ ledger' = sheet
            /\ IF outcome = "200"
               THEN Goto(Others(r),
                         RunState("posted", "Settings", "", <<>>, r.gain))
               ELSE Finish(Others(r), SettingsView(Status(outcome), r.gain))
            /\ UNCHANGED <<cache, sim_vars>>

----------------------------------------------------------------------------
(* Specifications *)

\* No row in the sheet, nothing cached, no run.
AppInit ==
    /\ ledger = <<>>
    /\ cache = EmptyCache
    /\ run = EmptyBag
    /\ view = NoView

\* The simulator's variables outside SimSpec: a call that has returned.
SimIdle ==
    /\ monthly_topup = 0
    /\ daily_rate = FFromInt(0)
    /\ months = 0
    /\ day = 1
    /\ balance = InitialBalance
    /\ history = <<>>
    /\ pc = "return"

Init == AppInit /\ SimIdle

Next ==
    \/ Dashboard
    \/ EarningsSimulator
    \/ Transactions
    \/ AddTransaction
    \/ Saved
    \/ Reload
    \/ GoalTracker
    \/ Settings
    \/ SimulateAutoDailyProfit
    \/ PostDailyGain
    \/ Store
    \/ Stop
    \/ CacheExpire

Spec == Init /\ [][Next]_vars

SimNext == SimStep \/ SimReturn

\* A call of simulate_growth, the sheet left alone.
SimStart == SimInit /\ AppInit

SimSpec == SimStart /\ [][SimNext]_vars

----------------------------------------------------------------------------
(* Claims about simulate_growth, checked under SimSpec *)

AllZero(h) == \A i \in 1..Len(h) : h[i] = FFromInt(0)

\* C1: for every contribution, rate and num_cycles >= 0 the returned
\* sequence holds exactly num_cycles * 20 balances; num_cycles = 0 returns
\* the empty sequence.
C1_Length ==
    pc = "return" =>
        /\ Len(history) = months * 20
        /\ (months = 0 => history = <<>>)

C1_Witness == pc = "return" /\ months = 2 /\ Len(history) = 40

\* The reference recurrence of C2, one step of it, in float arithmetic:
\* b_i = (b_{i-1} + (contribution if (i - 1) mod 20 = 0 else 0)) * (1 + rate/100).
Reference(prev, i, contribution, rate) ==
    LET added == IF (i - 1) % 20 = 0 THEN FAdd(prev, FFromInt(contribution))
                 ELSE prev
    IN  FMul(added, FAdd(FFromInt(1), FDiv(rate, FFromInt(100))))

\* C2: the outputs are the balances of the reference recurrence with
\* b_0 = 0: the contribution is added exactly on the steps i with
\* (i - 1) mod 20 = 0, and before that step's multiplication.
C2_Recurrence ==
    \A i \in 1..Len(history) :
        history[i] = Reference(IF i = 1 THEN FFromInt(0) ELSE history[i - 1],
                               i, monthly_topup, daily_rate)

\* One cycle at rate 1.0 with a contribution of 1000000: 1010000.0 after
\* step 1, 1220190.0399479668 after step 20.
C2_Witness ==
    /\ pc = "return"
    /\ monthly_topup = 1000000 /\ daily_rate = FFromInt(1) /\ months = 1
    /\ history[1] = FFromInt(1010000)
    /\ history[20] = [neg |-> FALSE, man |-> <<1963, 10472, 9696, 1191>>,
                      exp |-> -32]

\* C3: with contribution >= 0, rate >= 0 and num_cycles >= 1 no step lowers
\* the balance, also not the first step of a later cycle.
C3_NonDecreasing ==
    (monthly_topup >= 0 /\ FLe(FFromInt(0), daily_rate) /\ months >= 1) =>
        \A i \in 1..(Len(history) - 1) : FLe(history[i], history[i + 1])

\* Two cycles at rate 1.0: 1220190.0399479668 after step 20 and
\* 2242391.9403474466 after step 21.
C3_Witness ==
    /\ pc = "return"
    /\ monthly_topup = 1000000 /\ daily_rate = FFromInt(1) /\ months = 2
    /\ history[20] = [neg |-> FALSE, man |-> <<1963, 10472, 9696, 1191>>,
                      exp |-> -32]
    /\ history[21] = [neg |-> FALSE, man |-> <<3613, 8565, 15039, 1094>>,
                      exp |-> -31]

\* C10 as stated: simulate(0, 0, n) returns a sequence of n zeros.
C10_Original ==
    (pc = "return" /\ monthly_topup = 0 /\ daily_rate = FFromInt(0)) =>
        (Len(history) = months /\ AllZero(history))

\* C10 as amended: simulate(0, 0, n) returns a sequence of 20 * n zeros.
C10_Zeros ==
    (pc = "return" /\ monthly_topup = 0 /\ daily_rate = FFromInt(0)) =>
        (Len(history) = 20 * months /\ AllZero(history))

C10_Witness ==
    /\ pc = "return"
    /\ monthly_topup = 0 /\ daily_rate = FFromInt(0) /\ months = 2
    /\ Len(history) = 40
    /\ AllZero(history)

----------------------------------------------------------------------------
(* Claims about the ledger pages, checked under Spec.  The ledger a page   *)
(* computes from is the frame view.df its run has loaded.                  *)

\* The sum of the amounts of the rows of one type, from the first row on.
RECURSIVE Total(_, _)
Total(rows, t) ==
    IF rows = <<>> THEN 0
    ELSE (IF Head(rows).type = t THEN Head(rows).amount ELSE 0)
           + Total(Tail(rows), t)

\* The number of distinct calendar dates among the profit rows.
ProfitDates(rows) ==
    Cardinality({to_datetime(rows[i].date) :
                    i \in {j \in DOMAIN rows : rows[j].type = "profit"}}
                \ {NaT})

IsPrefix(a, b) == Len(a) <= Len(b) /\ SubSeq(b, 1, Len(a)) = a

\* C4: wherever the program computes a balance (Dashboard, Goal Tracker) it
\* is the sum of the top-up, profit and withdraw amounts of the ledger, so
\* the two pages show the same balance.
C4_Balance ==
    view.page \in {"Dashboard", "Goal Tracker"} =>
        view.balance = Total(view.df, "topup") + Total(view.df, "profit")
                         + Total(view.df, "withdraw")

\* C5: a goal forecast is shown only when the average daily profit is > 0
\* and the balance is strictly below the goal, so the days remaining it
\* shows are never negative.
C5_NoForecastAtGoal ==
    (view.page = "Dashboard" /\ view.forecast.shown) =>
        /\ view.profit > 0
        /\ view.balance < TARGET_GOAL
        /\ view.forecast.days_left >= 0

\* C6: a forecast that is shown has days_remaining =
\* floor((goal - balance) / avg_daily_profit), avg_daily_profit being the
\* profit total divided by the number of distinct dates of the profit rows;
\* with no such date the average is 0 and no forecast is shown.
C6_DaysRemaining ==
    (view.page = "Dashboard" /\ view.forecast.shown) =>
        LET k == ProfitDates(view.df)
        IN  /\ k > 0
            /\ view.forecast.days_left =
                   ((TARGET_GOAL - view.balance) * k) \div view.profit

\* C7: the ROI of the Dashboard is profit_total / top_up_total * 100 (in
\* float arithmetic) when the top-up total is not 0, and 0 when it is 0,
\* whatever the profit.
C7_Roi ==
    view.page = "Dashboard" =>
        LET t == Total(view.df, "topup")
            p == Total(view.df, "profit")
        IN  view.roi = IF t # 0
                       THEN FMul(FDiv(FFromInt(p), FFromInt(t)), FFromInt(100))
                       ELSE FFromInt(0)

\* Top-up total 0 with profit 500: the ROI shown is 0.
C7_Witness ==
    /\ view.page = "Dashboard"
    /\ view.top_up = 0
    /\ view.profit = 500
    /\ view.roi = FFromInt(0)

\* The number of runs at "posted", and of runs that have reported "saved"
Answered(runs) ==
    BagCardinality([r \in {x \in BagToSet(runs) : x.pc = "posted"} |-> runs[r]])
Reported(runs) ==
    BagCardinality([r \in {x \in BagToSet(runs) : x.status = "saved"} |-> runs[r]])

\* C8: the ledger is append-only.  Every step of every run leaves the
\* earlier ledger a prefix of the later one; a request answered with 200 has
\* appended exactly one row, any other step, a failed submission included,
\* leaves the ledger as it was, and a run reports success only for a
\* request answered with 200.
C8_AppendOnly ==
    [][ /\ IsPrefix(ledger, ledger')
        /\ IF Answered(run') > Answered(run)
           THEN Len(ledger') = Len(ledger) + 1
           ELSE ledger' = ledger
        /\ (\/ Reported(run') > Reported(run)
            \/ view'.page = "Settings" /\ view'.status = "saved")
              => Answered(run') < Answered(run) ]_vars

\* A submitted row followed by a simulated daily profit.
C8_Witness ==
    /\ Len(ledger) = 2
    /\ ledger[1].note = ""
    /\ ledger[2].note = "Simulated daily gain"
    /\ view.page = "Settings"
    /\ view.status = "saved"

\* C9: the aggregations are total: for every ledger the Dashboard's sums,
\* ROI and goal forecast are computed without an error, and the progress of
\* the Goal Tracker is 0 for a goal of 0.
C9_Total ==
    /\ view.page = "Dashboard" => view.error = ""
    /\ (view.page = "Goal Tracker" /\ view.goal = 0)
          => view.progress = FFromInt(0)

=============================================================================
